---- MODULE Spec2Model ----
(***************************************************************************)
(* Model of src/main.py: the used-set tracker (compute_signature,          *)
(* load_used_sets_local, save_used_sets_local,                             *)
(* pick_images_avoiding_repeats), the steps of main around it, and the     *)
(* title sanitizer (make_safe_title).                                      *)
(*                                                                         *)
(* Python strings are sequences of one-character tokens.  The tokens "LF", *)
(* "NBSP" and "FIRE" stand for U+000A (category Cc, matched by \s),        *)
(* U+00A0 (category Zs, matched by \s) and U+1F525 (category So).          *)
(***************************************************************************)
EXTENDS Integers, Sequences, FiniteSets, TLC

\* ---------------------------------------------------------------- bounds
MaxRuns == 3
MaxN == 2
MaxAttemptsBound == 2
MaxIdLen == 2
MaxCombo == 2
MaxTail == 4

\* ------------------------------------------------------ program constants
SAFE_MAX_TITLE == 95

Runs == {1, 2}

\* ------------------------------------------------------------ characters
Ord(ch) ==
    CASE ch = "," -> 44
      [] ch = "a" -> 97
      [] ch = "b" -> 98
      [] ch = "c" -> 99

RECURSIVE StrLess(_, _)
StrLess(s, t) ==
    IF t = <<>> THEN FALSE
    ELSE IF s = <<>> THEN TRUE
    ELSE IF Ord(Head(s)) < Ord(Head(t)) THEN TRUE
    ELSE IF Ord(Head(s)) > Ord(Head(t)) THEN FALSE
    ELSE StrLess(Tail(s), Tail(t))

RECURSIVE Insert(_, _)
Insert(x, sortedSeq) ==
    IF sortedSeq = <<>> THEN <<x>>
    ELSE IF StrLess(Head(sortedSeq), x) THEN <<Head(sortedSeq)>> \o Insert(x, Tail(sortedSeq))
    ELSE <<x>> \o sortedSeq

RECURSIVE sorted(_)
sorted(ids) ==
    IF ids = <<>> THEN <<>> ELSE Insert(Head(ids), sorted(Tail(ids)))

RECURSIVE JoinNoSeparator(_, _)
JoinNoSeparator(sep, ids) ==
    IF ids = <<>> THEN <<>> ELSE Head(ids) \o JoinNoSeparator(sep, Tail(ids))

RECURSIVE join(_, _)
join(sep, ids) ==
    IF ids = <<>> THEN <<>>
    ELSE IF Len(ids) = 1 THEN Head(ids)
    ELSE Head(ids) \o sep \o join(sep, Tail(ids))

\* hashlib.sha256(raw).hexdigest(): the digest is treated as injective in
\* its input and is kept as the tagged input.
sha256(raw) == <<"sha256:">> \o raw

FileIdsOf(file_meta_list) == [i \in 1..Len(file_meta_list) |-> file_meta_list[i].id]

hash_input(file_meta_list) == join(<<",">>, sorted(FileIdsOf(file_meta_list)))

compute_signature(file_meta_list) == sha256(hash_input(file_meta_list))

\* ------------------------------------------------------------ state file
\* The content of STATE_FILE.  kind: "missing" (no file), "list" (a JSON
\* list whose elements are items), "object" (a JSON object whose keys are
\* items), "scalar" (a JSON number), "garbage" (not JSON).  The order of a
\* JSON list is not kept: its only reader applies set() to it.  writes
\* counts the times the file was opened for writing.
JunkKey == <<"j", "u", "n", "k">>

MissingFile == [kind |-> "missing", items |-> {}, readable |-> TRUE, writes |-> 0]

LoadAlwaysEmpty(d) == {}

load_used_sets_local(d) ==
    IF d.kind = "missing" THEN {}
    ELSE IF ~d.readable THEN {}
    ELSE IF d.kind \in {"list", "object"} THEN d.items
    ELSE {}

SaveNothing(d, used_set) == d

SaveMerged(d, used_set) ==
    [kind |-> "list", items |-> load_used_sets_local(d) \cup used_set,
     readable |-> IF d.kind = "missing" THEN TRUE ELSE d.readable,
     writes |-> d.writes + 1]

save_used_sets_local(d, used_set) ==
    [kind |-> "list", items |-> used_set,
     readable |-> IF d.kind = "missing" THEN TRUE ELSE d.readable,
     writes |-> d.writes + 1]

\* ------------------------------------------------------------- variables
VARIABLES
    disk,           \* content of STATE_FILE
    runs,           \* number of runs of main started so far
    run,            \* per run of main: its position and its locals
    raw,            \* make_safe_title: the raw title
    safe_title,     \* make_safe_title(raw)
    safe_again,     \* make_safe_title(safe_title)
    tpc,            \* position of the sanitizer scenario
    comboA,         \* compute_signature: a first combination, in any order
    comboB,         \* compute_signature: a second combination, in ascending order
    sigA,
    sigB,
    spc             \* position of the signature scenario

vars == <<disk, runs, run, raw, safe_title, safe_again, tpc, comboA, comboB, sigA, sigB, spc>>

titleVars == <<raw, safe_title, safe_again, tpc>>
sigVars == <<comboA, comboB, sigA, sigB, spc>>

\* ------------------------------------------------ image selection, main
FileIds == {<<"a">>, <<"b">>, <<"c">>}

\* results of list_files_in_folder: lists of file metadata with distinct ids
Pools == {{}, {<<"a">>, <<"b">>}, FileIds}

Min(a, b) == IF a < b THEN a ELSE b

\* random.sample(files, k): k distinct elements in any order
Samples(files, k) ==
    {s \in [1..k -> [id : files]] : \A i, j \in 1..k : s[i] = s[j] => i = j}

IdleRun ==
    [pc |-> "idle", files |-> {}, n |-> 0, max_attempts |-> 0, used |-> {},
     attempts |-> 0, chosen |-> <<>>, sig |-> <<>>, draws |-> 0,
     loaded |-> {}, startDisk |-> MissingFile, returned |-> FALSE]

AlwaysFresh(sig, used) == TRUE

IsFresh(sig, used) == sig \notin used

UsedAddNothing(used, sig) == used

\* used.add(sig) on the fresh path, line 160
AddFresh(used, sig) == used \cup {sig}

\* used.add(sig) on the fallback path, line 167
AddFallback(used, sig) == used \cup {sig}

LoopOnceMore(attempts, max_attempts) == attempts <= max_attempts

ContinueLoop(attempts, max_attempts) == attempts < max_attempts

OthersIdle(r) == \A o \in Runs \ {r} : run[o].pc = "idle"

\* main up to the call of pick_images_avoiding_repeats: ensure_dirs and
\* init_drive_service, which raises when GCP_SA_KEY is not set.
Start(r) ==
    /\ run[r].pc = "idle"
    /\ runs < MaxRuns
    /\ runs' = runs + 1
    /\ \/ \E files \in Pools, n \in 1..MaxN, max_attempts \in 1..MaxAttemptsBound :
            run' = [run EXCEPT ![r] = [IdleRun EXCEPT !.pc = "pick", !.files = files,
                                           !.n = n, !.max_attempts = max_attempts,
                                           !.startDisk = disk]]
       \/ run' = [run EXCEPT ![r] = [IdleRun EXCEPT !.pc = "failed", !.startDisk = disk]]
    /\ UNCHANGED <<disk, titleVars, sigVars>>

MainStart(r) == OthersIdle(r) /\ Start(r)

\* pick_images_avoiding_repeats, lines 151-155
PickLoad(r) ==
    /\ run[r].pc = "pick"
    /\ IF run[r].files = {}
       THEN run' = [run EXCEPT ![r].pc = "failed"]
       ELSE run' = [run EXCEPT ![r].pc = "loop",
                               ![r].used = load_used_sets_local(disk),
                               ![r].loaded = load_used_sets_local(disk),
                               ![r].startDisk = disk,
                               ![r].attempts = 0]
    /\ UNCHANGED <<disk, runs, titleVars, sigVars>>

\* one iteration of the while loop, lines 156-163
PickLoop(r) ==
    /\ run[r].pc = "loop"
    /\ ContinueLoop(run[r].attempts, run[r].max_attempts)
    /\ \E chosen \in Samples(run[r].files, Min(run[r].n, Cardinality(run[r].files))) :
          LET sig == compute_signature(chosen) IN
          IF IsFresh(sig, run[r].used)
          THEN /\ disk' = save_used_sets_local(disk, AddFresh(run[r].used, sig))
               /\ run' = [run EXCEPT ![r].chosen = chosen, ![r].sig = sig,
                                       ![r].draws = @ + 1,
                                       ![r].used = AddFresh(run[r].used, sig),
                                       ![r].returned = TRUE,
                                       ![r].pc = "download"]
          ELSE /\ disk' = disk
               /\ run' = [run EXCEPT ![r].chosen = chosen, ![r].sig = sig,
                                       ![r].draws = @ + 1,
                                       ![r].attempts = @ + 1]
    /\ UNCHANGED <<runs, titleVars, sigVars>>

\* the fallback after the loop, lines 164-169
PickFallback(r) ==
    /\ run[r].pc = "loop"
    /\ ~ContinueLoop(run[r].attempts, run[r].max_attempts)
    /\ \E chosen \in Samples(run[r].files, Min(run[r].n, Cardinality(run[r].files))) :
          LET sig == compute_signature(chosen) IN
          /\ disk' = save_used_sets_local(disk, AddFallback(run[r].used, sig))
          /\ run' = [run EXCEPT ![r].chosen = chosen, ![r].sig = sig,
                                  ![r].draws = @ + 1,
                                  ![r].used = AddFallback(run[r].used, sig),
                                  ![r].returned = TRUE,
                                  ![r].pc = "download"]
    /\ UNCHANGED <<runs, titleVars, sigVars>>

\* a later step of main: it completes, or it raises and the run stops
MainStep(r, from, to) ==
    /\ run[r].pc = from
    /\ \/ run' = [run EXCEPT ![r].pc = to]
       \/ run' = [run EXCEPT ![r].pc = "failed"]
    /\ UNCHANGED <<disk, runs, titleVars, sigVars>>

DownloadImages(r) == MainStep(r, "download", "build")

BuildVideo(r) == MainStep(r, "build", "music")

MixMusic(r) == MainStep(r, "music", "title")

\* generate_title_and_desc_openai never raises (it falls back to the template)
TitleAndDesc(r) ==
    /\ run[r].pc = "title"
    /\ run' = [run EXCEPT ![r].pc = "upload"]
    /\ UNCHANGED <<disk, runs, titleVars, sigVars>>

Upload(r) == MainStep(r, "upload", "done")

\* the process of a run exits; the next scheduled run starts afresh
Exit(r) ==
    /\ run[r].pc \in {"done", "failed"}
    /\ run' = [run EXCEPT ![r] = IdleRun]
    /\ UNCHANGED <<disk, runs, titleVars, sigVars>>

\* Between runs the state file can become what load_used_sets_local guards
\* against: deleted, unreadable, or overwritten with something else.
Tampered(d) ==
    {[d EXCEPT !.readable = ~d.readable],
     [d EXCEPT !.kind = "garbage", !.items = {}],
     [d EXCEPT !.kind = "scalar", !.items = {}],
     [d EXCEPT !.kind = "object", !.items = {JunkKey}],
     [MissingFile EXCEPT !.writes = d.writes]}

Tamper ==
    /\ \A r \in Runs : run[r].pc = "idle"
    /\ disk.kind # "missing"
    /\ disk' \in Tampered(disk) \ {disk}
    /\ UNCHANGED <<runs, run, titleVars, sigVars>>

TitleOff ==
    /\ raw = <<>> /\ safe_title = <<>> /\ safe_again = <<>> /\ tpc = "off"

SigOff ==
    /\ comboA = <<>> /\ comboB = <<>> /\ sigA = <<>> /\ sigB = <<>> /\ spc = "off"

Init ==
    /\ disk = MissingFile
    /\ runs = 0
    /\ run = [r \in Runs |-> IdleRun]
    /\ TitleOff
    /\ SigOff

RunStep(r) ==
    \/ PickLoad(r)
    \/ PickLoop(r)
    \/ PickFallback(r)
    \/ DownloadImages(r)
    \/ BuildVideo(r)
    \/ MixMusic(r)
    \/ TitleAndDesc(r)
    \/ Upload(r)

\* runs of main one at a time, as the scheduler is assumed to trigger them
Next ==
    \/ \E r \in Runs : MainStart(r)
    \/ \E r \in Runs : RunStep(r)
    \/ \E r \in Runs : Exit(r)
    \/ Tamper

Spec == Init /\ [][Next]_vars

\* two runs of main started without waiting for each other
NextConc ==
    \/ \E r \in Runs : Start(r)
    \/ \E r \in Runs : RunStep(r)

SpecConc == Init /\ [][NextConc]_vars

\* ----------------------------------------------------- signature scenario
\* Identifier strings over a letter and the separator.
IdChars == {"a", ","}

IdStrings == UNION {[1..l -> IdChars] : l \in 0..MaxIdLen}

\* file metadata lists without a repeated id, as random.sample returns them
Combos ==
    UNION {{s \in [1..k -> [id : IdStrings]] : \A i, j \in 1..k : s[i] = s[j] => i = j}
           : k \in 0..MaxCombo}

\* the same combinations, each in one order only (ascending ids)
AscendingCombos ==
    {c \in Combos : \A i \in 1..Len(c) - 1 : StrLess(c[i].id, c[i + 1].id)}

IdSet(file_meta_list) == {file_meta_list[i].id : i \in 1..Len(file_meta_list)}

InitSig ==
    /\ disk = MissingFile
    /\ runs = 0
    /\ run = [r \in Runs |-> IdleRun]
    /\ TitleOff
    /\ comboA \in Combos
    /\ comboB \in AscendingCombos
    /\ sigA = <<>>
    /\ sigB = <<>>
    /\ spc = "start"

SignFirst ==
    /\ spc = "start"
    /\ sigA' = compute_signature(comboA)
    /\ spc' = "first"
    /\ UNCHANGED <<disk, runs, run, titleVars, comboA, comboB, sigB>>

SignSecond ==
    /\ spc = "first"
    /\ sigB' = compute_signature(comboB)
    /\ spc' = "done"
    /\ UNCHANGED <<disk, runs, run, titleVars, comboA, comboB, sigA>>

NextSig == SignFirst \/ SignSecond

SpecSig == InitSig /\ [][NextSig]_vars

\* --------------------------------------------------------- title sanitizer
\* unicodedata.category(ch)[0] == "C"
ControlChars == {"LF"}

\* characters matched by \s
WhitespaceChars == {" ", "LF", "NBSP"}

\* the characters kept by the character class of keep_basic_chars
BasicChars ==
    {"a", "A", "u", "t", "o", "S", "h", "r", "0", " ", ".", ",", ";", ":", "!", "?",
     "@", "#", "&", "(", ")", "-", "_", "/", "|", "RSQUO", "'", "\"", "+"}

NotControl(ch) == ch \notin ControlChars

IsBasic(ch) == ch \in BasicChars

\* re.sub(r"\s+", " ", text): every maximal run of whitespace becomes one
\* space (the first character of the run is kept as the space)
RunStart(p) == p.start

CollapseWhitespace(text) ==
    LET marked == [i \in 1..Len(text) |->
                     IF text[i] \in WhitespaceChars
                     THEN [ch |-> " ", start |-> (i = 1 \/ text[i - 1] \notin WhitespaceChars)]
                     ELSE [ch |-> text[i], start |-> TRUE]]
        kept == SelectSeq(marked, RunStart)
    IN  [i \in 1..Len(kept) |-> kept[i].ch]

lstrip(text, chars) ==
    LET keep == {i \in 1..Len(text) : text[i] \notin chars}
    IN  IF keep = {} THEN <<>>
        ELSE SubSeq(text, CHOOSE i \in keep : \A j \in keep : i <= j, Len(text))

rstrip(text, chars) ==
    LET keep == {i \in 1..Len(text) : text[i] \notin chars}
    IN  IF keep = {} THEN <<>>
        ELSE SubSeq(text, 1, CHOOSE i \in keep : \A j \in keep : i >= j)

strip(text, chars) == rstrip(lstrip(text, chars), chars)

strip_control_and_unsupported(text) ==
    strip(CollapseWhitespace(SelectSeq(text, NotControl)), WhitespaceChars)

keep_basic_chars(text) == SelectSeq(text, IsBasic)

make_safe_title(rawText, default) ==
    LET t1 == strip(keep_basic_chars(strip_control_and_unsupported(rawText)), {" ", ".", "-", "_"})
        t2 == IF t1 = <<>> THEN default ELSE t1
    IN  IF Len(t2) > SAFE_MAX_TITLE
        THEN rstrip(SubSeq(t2, 1, SAFE_MAX_TITLE), WhitespaceChars)
        ELSE t2

\* the default main passes: "Auto Short"
AutoShort == <<"A", "u", "t", "o", " ", "S", "h", "o", "r", "t">>

TitleChars == {"a", " ", ".", "FIRE", "LF", "NBSP"}

\* a run of letters that brings a title near the length limit
Padding(len) == [i \in 1..len |-> "a"]

RawTitles ==
    {Padding(p) \o tail : p \in {0, SAFE_MAX_TITLE - 2},
                          tail \in UNION {[1..l -> TitleChars] : l \in 0..MaxTail}}

InitTitle ==
    /\ disk = MissingFile
    /\ runs = 0
    /\ run = [r \in Runs |-> IdleRun]
    /\ SigOff
    /\ raw \in RawTitles
    /\ safe_title = <<>>
    /\ safe_again = <<>>
    /\ tpc = "start"

Sanitize ==
    /\ tpc = "start"
    /\ safe_title' = make_safe_title(raw, AutoShort)
    /\ tpc' = "once"
    /\ UNCHANGED <<disk, runs, run, sigVars, raw, safe_again>>

SanitizeAgain ==
    /\ tpc = "once"
    /\ safe_again' = make_safe_title(safe_title, AutoShort)
    /\ tpc' = "twice"
    /\ UNCHANGED <<disk, runs, run, sigVars, raw, safe_title>>

NextTitle == Sanitize \/ SanitizeAgain

SpecTitle == InitTitle /\ [][NextTitle]_vars

\* ================================================================ claims
Returned(r) == run[r].returned

CallSamples(r) == Samples(run[r].files, Min(run[r].n, Cardinality(run[r].files)))

\* some combination of the call's size had an unused fingerprint at load
FreshExists(r) == \E c \in CallSamples(r) : compute_signature(c) \notin run[r].loaded

\* the set of fingerprints a state file holds
PersistedFps(d) == IF d.kind = "list" THEN d.items ELSE {}

\* the call went through every attempt of the loop without a fresh draw
Exhausted(r) == run[r].max_attempts > 0 /\ run[r].attempts = run[r].max_attempts

NoSeparator(file_meta_list) ==
    \A i \in 1..Len(file_meta_list) :
        \A k \in 1..Len(file_meta_list[i].id) : file_meta_list[i].id[k] # ","

\* C1 (as stated): while some combination of the call's size has a
\* fingerprint that is not in the UsedSet, no call returns a combination
\* whose fingerprint was in the UsedSet when the call loaded it.
C1_NoRepeatWhileFreshExists ==
    \A r \in Runs :
        (Returned(r) /\ FreshExists(r)) => run[r].sig \notin run[r].loaded

\* C1 (amended): a call returns a combination whose fingerprint was in the
\* UsedSet it loaded only through the fallback, after max_attempts draws of
\* the loop each gave a used fingerprint; a call that returns from inside
\* the loop returns a fingerprint that was not in the loaded UsedSet.
C1_RepeatOnlyAfterAllAttempts ==
    \A r \in Runs :
        (Returned(r) /\ run[r].sig \in run[r].loaded)
            => (run[r].attempts = run[r].max_attempts
                /\ run[r].draws = run[r].max_attempts + 1)

\* a call returned a used combination although a fresh one existed
C1_Witness ==
    \E r \in Runs :
        /\ Returned(r)
        /\ run[r].sig \in run[r].loaded
        /\ FreshExists(r)
        /\ run[r].attempts = run[r].max_attempts

\* C2: a call of pick_images_avoiding_repeats that has returned a
\* combination has written the state file exactly once, on the fresh path
\* and on the fallback path alike; a call that has not returned has not
\* written it.
C2_ExactlyOneSavePerCall ==
    \A r \in Runs :
        run[r].pc # "idle"
            => IF Returned(r)
               THEN disk.writes = run[r].startDisk.writes + 1
               ELSE disk.writes = run[r].startDisk.writes

\* a call returned through the fallback, after retries, and saved once
C2_Witness ==
    \E r \in Runs :
        /\ Returned(r)
        /\ Exhausted(r)
        /\ run[r].max_attempts > 1
        /\ disk.writes = run[r].startDisk.writes + 1

\* C3: when every draw of the loop gave a used fingerprint the call does
\* not raise: it returns the subset it drew last, whose fingerprint is in
\* the UsedSet the call persists; when the pool is no larger than n and its
\* only combination is used, the call returns that combination.
C3_FallbackAcceptsLastDraw ==
    \A r \in Runs :
        (Exhausted(r) /\ run[r].pc \notin {"idle", "pick", "loop"})
            => /\ Returned(r)
               /\ run[r].sig = compute_signature(run[r].chosen)
               /\ disk.kind = "list"
               /\ run[r].sig \in disk.items
               /\ Cardinality(run[r].files) <= run[r].n
                    => (IdSet(run[r].chosen) = run[r].files /\ run[r].sig \in run[r].loaded)

\* the pool has one combination, it was used, and the fallback returned it
C3_Witness ==
    \E r \in Runs :
        /\ Returned(r)
        /\ Exhausted(r)
        /\ Cardinality(run[r].files) <= run[r].n
        /\ run[r].sig \in run[r].loaded
        /\ run[r].sig \in disk.items

\* C4 (as stated): the set a run writes is a superset of the fingerprints
\* the state file held before the run, also when the run starts from a
\* missing, unreadable or malformed state file.
C4_SavedSupersetOfPersisted ==
    \A r \in Runs :
        Returned(r) => PersistedFps(run[r].startDisk) \subseteq PersistedFps(disk)

\* C4 (amended): when a run starts from a state file that is missing or is
\* a readable serialized list, the set the run writes is a superset of the
\* fingerprints the file held before the run.
C4_SavedSupersetWhenReadable ==
    \A r \in Runs :
        (Returned(r) /\ (run[r].startDisk.kind = "missing" \/ run[r].startDisk.readable))
            => PersistedFps(run[r].startDisk) \subseteq PersistedFps(disk)

\* a run added a new fingerprint to a readable, non-empty list
C4_Witness ==
    \E r \in Runs :
        /\ Returned(r)
        /\ run[r].startDisk.kind = "list"
        /\ run[r].startDisk.readable
        /\ run[r].startDisk.items # {}
        /\ run[r].sig \notin run[r].startDisk.items
        /\ run[r].startDisk.items \subseteq disk.items

\* C5: load_used_sets_local returns the empty set whenever the state file
\* is missing, cannot be read, or holds anything that is not a serialized
\* list of fingerprints.
C5_MalformedLoadsEmpty ==
    \A r \in Runs :
        (run[r].pc \notin {"idle", "pick"}
         /\ (run[r].startDisk.kind # "list" \/ ~run[r].startDisk.readable))
            => run[r].loaded = {}

\* C6: a call makes at most max_attempts + 1 draws: inside the loop the
\* number of draws is the number of attempts and never exceeds
\* max_attempts, and the draw after that returns.
C6_AtMostMaxAttemptsPlusOneDraws ==
    \A r \in Runs :
        run[r].pc # "idle"
            => /\ run[r].draws <= run[r].max_attempts + 1
               /\ run[r].pc = "loop"
                    => (run[r].draws = run[r].attempts
                        /\ run[r].attempts <= run[r].max_attempts)
               /\ run[r].draws = run[r].max_attempts + 1 => Returned(r)

\* a call returned with its last permitted draw
C6_Witness ==
    \E r \in Runs :
        /\ Returned(r)
        /\ run[r].max_attempts > 1
        /\ run[r].draws = run[r].max_attempts + 1

\* C7 (as stated): for all identifier strings, two combinations (of at
\* least one item each) whose sets of identifiers differ have different
\* fingerprints.
C7_DistinctSetsDistinctSignatures ==
    (/\ spc = "done"
     /\ comboA # <<>> /\ comboB # <<>>
     /\ IdSet(comboA) # IdSet(comboB))
        => sigA # sigB

\* C7 (amended): for identifier strings that do not contain the separator
\* ",", two non-empty combinations whose sets of identifiers differ have
\* different fingerprints.
C7_DistinctWithoutSeparator ==
    (/\ spc = "done"
     /\ NoSeparator(comboA) /\ NoSeparator(comboB)
     /\ comboA # <<>> /\ comboB # <<>>
     /\ IdSet(comboA) # IdSet(comboB))
        => sigA # sigB

\* two overlapping, different combinations of separator-free identifiers
C7_Witness ==
    /\ spc = "done"
    /\ NoSeparator(comboA) /\ NoSeparator(comboB)
    /\ Len(comboA) = 2 /\ Len(comboB) >= 1
    /\ IdSet(comboA) # IdSet(comboB)
    /\ IdSet(comboA) \cap IdSet(comboB) # {}
    /\ sigA # sigB

\* C8: make_safe_title applied to its own result returns that result.
C8_SanitizerIdempotent ==
    tpc = "twice" => safe_again = safe_title

\* C9: with two runs interleaving, the state file, once written, holds
\* exactly the in-memory set of one run that has saved (what it loaded plus
\* its own fingerprint), never a merge with what the file held at the
\* save: a save overwrites whatever another run saved since the load.
C9_SaveOverwritesWholeSet ==
    disk.writes > 0
        => \E r \in Runs :
              /\ Returned(r)
              /\ disk.kind = "list"
              /\ disk.items = run[r].loaded \cup {run[r].sig}

\* both runs returned a combination and one fingerprint is not persisted
C9_LostUpdate ==
    /\ \A r \in Runs : Returned(r)
    /\ \E r \in Runs : run[r].sig \notin disk.items
    /\ disk.writes = 2

\* C10: from the step of main that first uses the combination onwards,
\* also after a failure of such a step, the state file holds the UsedSet
\* with the chosen fingerprint as the pick wrote it, and it has been
\* written once in the run.
C10_SavedBeforeUse ==
    \A r \in Runs :
        (run[r].pc \in {"download", "build", "music", "title", "upload", "done"}
         \/ (run[r].pc = "failed" /\ Returned(r)))
            => /\ disk.kind = "list"
               /\ run[r].sig \in disk.items
               /\ disk.items = run[r].used
               /\ disk.writes = run[r].startDisk.writes + 1

\* a run failed in a step after the pick and the fingerprint is recorded
C10_Witness ==
    \E r \in Runs :
        /\ run[r].pc = "failed"
        /\ Returned(r)
        /\ run[r].sig \in disk.items
        /\ run[r].sig \notin run[r].loaded

====
